---- MODULE Spec2Model ----
(***************************************************************************)
(* Model of package timemachine (src/timemachine.go): a process-wide clock *)
(* facade that is either live (delegates to the real clock) or frozen      *)
(* (reports a cached instant that only Sleep and Travel advance).          *)
(*                                                                         *)
(* Every exported function is a sequence of steps, one per shared-memory   *)
(* access of its body; a thread's position is pc[t].  An instant           *)
(* (time.Time) is an integer on the real clock's line; a time.Duration is  *)
(* a signed integer of DurBits bits, and time.Time.Sub saturates to that   *)
(* range as the standard library does.  The range of time.Time itself is   *)
(* some 2^33 times wider than that of a Duration and is never reached.     *)
(***************************************************************************)
EXTENDS Integers, Sequences, FiniteSets

\* ------------------------------------------------------------- bounds
NumThreads == 2
MaxClock == 2
MaxTime == 5
MaxBack == 1
DurBits == 3

Threads == 1..NumThreads

\* time.Duration: minDuration, maxDuration
DurMin == -(2^(DurBits - 1))
DurMax == 2^(DurBits - 1) - 1

\* durations the callers pass: negative, zero, small, the largest Duration
DurArgs == {-1, 0, 1, DurMax}

\* time.Time{}: the zero instant, further in the past than a Duration spans
ZeroTime == -(2^DurBits)

VARIABLES frozen, frozenTime, lock, clock, pc, op, arg, tmp, wake, rec,
          last, prev, expect, base, adv, stable, began, un

shared == <<frozen, frozenTime, lock>>
locals == <<pc, op, arg, tmp, wake>>
caller == <<last, prev, expect, base, adv, stable, began>>
vars == <<frozen, frozenTime, lock, clock, pc, op, arg, tmp, wake, rec,
          last, prev, expect, base, adv, stable, began, un>>

\* ------------------------------------------------------------- time package
Saturate(x) == IF x > DurMax THEN DurMax ELSE IF x < DurMin THEN DurMin ELSE x

\* time.Time.Add
Add(t, d) == t + d

\* time.Time.Sub: the difference, saturated to the Duration range
Sub(t, u) == Saturate(t - u)

\* ------------------------------------------------------------- the caller's record
\* What a sequential caller knows from the calls it made, kept apart from the
\* program's state and kept only when rec is set: last and prev are the two calls
\* that returned last; expect tells whether a FreezeNow() was called with no
\* Unfreeze() after it; base is what that FreezeNow() returned and adv the sum of
\* the durations passed to Sleep() and Travel() since; stable is what the first
\* Now() since the last Sleep/Travel/FreezeNow/Unfreeze returned, and whether the
\* real clock has advanced and Now() was called again since; began is the real
\* time at which the FreezeNow() in progress was called.  A record's clk is the
\* real time at which a FreezeNow(), or a Now/Since/Until outside a freeze,
\* returned, and clk0 the real time at which a FreezeNow() was called.
NoCall == [op |-> "none", arg |-> 0, ret |-> 0, flag |-> FALSE, out |-> "ok",
           clk0 |-> 0, clk |-> 0]

NoStable == [st |-> "none", val |-> 0]

\* of the call before the last, the record keeps what later calls are compared with
Older(r) ==
    IF r.op \in {"Now", "FreezeNow", "Travel", "Since"}
    THEN [r EXCEPT !.clk0 = 0, !.clk = 0, !.arg = IF r.op = "Since" THEN r.arg ELSE 0]
    ELSE [NoCall EXCEPT !.op = "other"]

Mutators == {"Sleep", "Travel", "FreezeNow", "Unfreeze"}
TimeOps == {"Now", "FreezeNow", "Travel"}
Reads == {"Now", "Since", "Until"}

\* instants a caller holds: the zero Time and the ones earlier calls returned
KnownTimes ==
    {ZeroTime, base} \cup
    {r.ret : r \in {q \in {last, prev} : q.op \in TimeOps /\ q.out = "ok"}}

\* the call `o(a)`, made at real time c0, has returned r (f for a boolean)
Record(o, a, r, f, out, c0) ==
    IF ~rec THEN UNCHANGED caller
    ELSE /\ last' = [op |-> o, arg |-> a, ret |-> r, flag |-> f, out |-> out,
                     clk0 |-> IF o = "FreezeNow" THEN c0 ELSE 0,
                     clk |-> IF o = "FreezeNow" \/ (o \in Reads /\ ~expect)
                             THEN clock ELSE 0]
         /\ prev' = Older(last)
         /\ expect' = IF o = "FreezeNow" THEN TRUE
                      ELSE IF o = "Unfreeze" THEN FALSE ELSE expect
         /\ base' = IF o = "FreezeNow" THEN r
                    ELSE IF o = "Unfreeze" THEN ZeroTime ELSE base
         /\ adv' = IF o \in {"FreezeNow", "Unfreeze"} THEN 0
                   ELSE IF o \in {"Sleep", "Travel"} /\ out = "ok" /\ expect
                        THEN adv + a
                   ELSE adv
         /\ stable' = IF o \in Mutators /\ out = "ok" THEN NoStable
                      ELSE IF o # "Now" THEN stable
                      ELSE IF stable.st = "none" THEN [st |-> "one", val |-> r]
                      ELSE IF stable.st = "ticked" THEN [stable EXCEPT !.st = "two"]
                      ELSE stable
         /\ began' = 0

\* ------------------------------------------------------------- the unsynchronized variant
\* The variant of the package without the mutex (src/unnamed/part_000), run by the
\* single caller alongside the package, call for call and on the same real clock.
\* un holds its two globals, its position in the call in progress and what its
\* last call returned; un.run tells whether it is run at all.
NoVariant == [run |-> FALSE, frozen |-> FALSE, frozenTime |-> ZeroTime, pc |-> "idle",
              ret |-> 0, flag |-> FALSE, out |-> "ok"]

UnInit == [NoVariant EXCEPT !.run = TRUE]

\* the call in progress ends with result r (f for a boolean), outcome out
UnReturn(v, r, f, out) == [v EXCEPT !.pc = "idle", !.ret = r, !.flag = f, !.out = out]

\* what Now() is asked for: Now(), Since(t) or Until(t)
UnResult(o, a, n) ==
    IF o = "Since" THEN Sub(n, a) ELSE IF o = "Until" THEN Sub(a, n) ELSE n

\* Now(), line 16: if frozen; line 18: return frozenTime; line 20: time.Now()
UnNow(o, a) ==
    IF un.pc = "idle"
    THEN IF un.frozen THEN [un EXCEPT !.pc = "Now18"]
         ELSE UnReturn(un, UnResult(o, a, clock), FALSE, "ok")
    ELSE UnReturn(un, UnResult(o, a, un.frozenTime), FALSE, "ok")

\* Sleep(d), line 25: if frozen; line 27: frozenTime = frozenTime.Add(d);
\* line 29: time.Sleep(d)
UnSleep(d) ==
    IF un.pc = "idle"
    THEN IF un.frozen THEN [un EXCEPT !.pc = "Sleep27"]
         ELSE IF d <= 0 THEN UnReturn(un, 0, FALSE, "ok")
         ELSE [un EXCEPT !.pc = "Sleep29"]
    ELSE IF un.pc = "Sleep27"
         THEN UnReturn([un EXCEPT !.frozenTime = Add(un.frozenTime, d)], 0, FALSE, "ok")
    ELSE UnReturn(un, 0, FALSE, "ok")

\* FreezeNow(), line 45: frozen = true; line 46: frozenTime = time.Now();
\* line 47: return frozenTime
UnFreezeNow ==
    IF un.pc = "idle" THEN [un EXCEPT !.pc = "FreezeNow45"]
    ELSE IF un.pc = "FreezeNow45" THEN [un EXCEPT !.frozen = TRUE, !.pc = "FreezeNow46"]
    ELSE IF un.pc = "FreezeNow46" THEN [un EXCEPT !.frozenTime = clock, !.pc = "FreezeNow47"]
    ELSE UnReturn(un, un.frozenTime, FALSE, "ok")

\* Unfreeze(), line 51: frozen = false
UnUnfreeze ==
    IF un.pc = "idle" THEN [un EXCEPT !.pc = "Unfreeze51"]
    ELSE IF un.pc = "Unfreeze51" THEN [un EXCEPT !.frozen = FALSE, !.pc = "Unfreeze52"]
    ELSE UnReturn(un, 0, FALSE, "ok")

\* IsFrozen(), line 55: return frozen
UnIsFrozen == UnReturn(un, 0, un.frozen, "ok")

\* the variant's Travel() with no check of frozen
UnTravel_NoCheck(d) ==
    IF un.pc = "idle" THEN [un EXCEPT !.pc = "Travel62"]
    ELSE IF un.pc = "Travel62"
         THEN [un EXCEPT !.frozenTime = Add(un.frozenTime, d), !.pc = "Travel63"]
    ELSE UnReturn(un, un.frozenTime, FALSE, "ok")

\* Travel(d), line 59: if !frozen; line 60: panic; line 62: frozenTime =
\* frozenTime.Add(d); line 63: return frozenTime
UnTravel(d) ==
    IF un.pc = "idle"
    THEN IF ~un.frozen THEN UnReturn(un, 0, FALSE, "panic")
         ELSE [un EXCEPT !.pc = "Travel62"]
    ELSE IF un.pc = "Travel62"
         THEN [un EXCEPT !.frozenTime = Add(un.frozenTime, d), !.pc = "Travel63"]
    ELSE UnReturn(un, un.frozenTime, FALSE, "ok")

\* the positions of the package from which the step taken is the locking of the
\* mutex or the read half of an assignment: the variant has no step to match it
Silent == {"FreezeNow88", "Unfreeze98", "Travel115", "Travel117", "Sleep64"}

\* the variant takes the step of its call `o(a)` that matches the step thread t takes
Variant(t, o, a) ==
    IF ~un.run \/ pc[t] \in Silent THEN UNCHANGED un
    ELSE un' = CASE o \in Reads -> UnNow(o, a)
                 [] o = "Sleep" -> UnSleep(a)
                 [] o = "FreezeNow" -> UnFreezeNow
                 [] o = "Unfreeze" -> UnUnfreeze
                 [] o = "IsFrozen" -> UnIsFrozen
                 [] o = "Travel" -> UnTravel(a)

\* ------------------------------------------------------------- calls
\* the call `o(a)` of thread t ends with result r (f for a boolean), outcome out
Return(t, o, a, r, f, out) ==
    /\ pc' = [pc EXCEPT ![t] = "idle"]
    /\ op' = [op EXCEPT ![t] = "none"]
    /\ arg' = [arg EXCEPT ![t] = 0]
    /\ tmp' = [tmp EXCEPT ![t] = 0]
    /\ wake' = [wake EXCEPT ![t] = 0]
    /\ Record(o, a, r, f, out, IF pc[t] = "idle" THEN clock ELSE began)
    /\ Variant(t, o, a)
    /\ UNCHANGED rec

\* thread t goes on to position l of the call `o(a)`
Goto(t, o, a, l) ==
    /\ pc' = [pc EXCEPT ![t] = l]
    /\ op' = [op EXCEPT ![t] = o]
    /\ arg' = [arg EXCEPT ![t] = a]
    /\ began' = IF rec /\ pc[t] = "idle" /\ o = "FreezeNow" THEN clock ELSE began
    /\ Variant(t, o, a)
    /\ UNCHANGED <<rec, last, prev, expect, base, adv, stable>>

\* ------------------------------------------------------------- Init
Init0 ==
    /\ frozen = FALSE
    /\ frozenTime = ZeroTime
    /\ lock = 0
    /\ clock = 0
    /\ pc = [t \in Threads |-> "idle"]
    /\ op = [t \in Threads |-> "none"]
    /\ arg = [t \in Threads |-> 0]
    /\ tmp = [t \in Threads |-> 0]
    /\ wake = [t \in Threads |-> 0]
    /\ last = NoCall
    /\ prev = Older(NoCall)
    /\ expect = FALSE
    /\ base = ZeroTime
    /\ adv = 0
    /\ stable = NoStable
    /\ began = 0

\* ------------------------------------------------------------- real clock
Tick ==
    /\ clock < MaxClock
    /\ clock' = clock + 1
    /\ stable' = IF stable.st = "one" THEN [stable EXCEPT !.st = "ticked"] ELSE stable
    /\ UNCHANGED <<shared, locals, rec, last, prev, expect, base, adv, began, un>>

\* ------------------------------------------------------------- Now, Since, Until
\* Until computed as Since is
Result_UntilSwapped(o, a, n) ==
    IF o = "Since" \/ o = "Until" THEN Sub(n, a) ELSE n

\* what the caller of Now() makes of the instant n
Result(o, a, n) ==
    IF o = "Since" THEN Sub(n, a) ELSE IF o = "Until" THEN Sub(a, n) ELSE n

\* the cached instant used whenever there is one, frozen or not
NowBody_Cached(t, o, a) ==
    /\ pc[t] = "idle"
    /\ IF frozen \/ frozenTime # ZeroTime
       THEN Goto(t, o, a, "Now53") /\ UNCHANGED <<tmp, wake>>
       ELSE Return(t, o, a, Result(o, a, clock), FALSE, "ok")
    /\ UNCHANGED <<shared, clock>>

\* Now(), line 51: the unlocked read of state.frozen; line 55: time.Now()
NowBody(t, o, a) ==
    /\ pc[t] = "idle"
    /\ IF frozen
       THEN Goto(t, o, a, "Now53") /\ UNCHANGED <<tmp, wake>>
       ELSE Return(t, o, a, Result(o, a, clock), FALSE, "ok")
    /\ UNCHANGED <<shared, clock>>

Now(t) == NowBody(t, "Now", 0)

Since(t, u) == NowBody(t, "Since", u)

Until(t, u) == NowBody(t, "Until", u)

\* the frozen branch returning time.Now() as the live one does
Now53_Live(t) ==
    /\ pc[t] = "Now53"
    /\ Return(t, op[t], arg[t], Result(op[t], arg[t], clock), FALSE, "ok")
    /\ UNCHANGED <<shared, clock>>

\* Now(), line 53: the unlocked read of state.frozenTime
Now53(t) ==
    /\ pc[t] = "Now53"
    /\ Return(t, op[t], arg[t], Result(op[t], arg[t], frozenTime), FALSE, "ok")
    /\ UNCHANGED <<shared, clock>>

\* ------------------------------------------------------------- Sleep
\* The callers advance the cached instant by d only while it stays within
\* -MaxBack .. MaxTime whatever the calls in progress do: those that have yet to
\* read frozenTime (lines 64, 117) will add their own d to what they read, those
\* that have read it will store the sum, and a FreezeNow() stores a real time.
InRange(d) ==
    LET unread(t) == pc[t] \in {"Sleep64", "Travel115", "Travel117"}
        up[n \in 0..NumThreads] ==
            IF n = 0 THEN 0
            ELSE up[n - 1] + (IF unread(n) /\ arg[n] > 0 THEN arg[n] ELSE 0)
        down[n \in 0..NumThreads] ==
            IF n = 0 THEN 0
            ELSE down[n - 1] + (IF unread(n) /\ arg[n] < 0 THEN arg[n] ELSE 0)
        sums == {tmp[t] + arg[t] : t \in {u \in Threads : pc[u] \in {"Sleep64w", "Travel117w"}}}
        high == CHOOSE x \in sums \cup {frozenTime, MaxClock} :
                    \A y \in sums \cup {frozenTime, MaxClock} : y <= x
        low == CHOOSE x \in sums \cup {frozenTime, 0} :
                   \A y \in sums \cup {frozenTime, 0} : x <= y
    IN  /\ high + up[NumThreads] + (IF d > 0 THEN d ELSE 0) <= MaxTime
        /\ low + down[NumThreads] + (IF d < 0 THEN d ELSE 0) >= -MaxBack

\* the real sleep taken in either mode: the frozen branch left out
Sleep_AlwaysLive(t, d) ==
    /\ pc[t] = "idle"
    /\ IF d <= 0
       THEN Return(t, "Sleep", d, 0, FALSE, "ok")
       ELSE /\ clock + d <= MaxClock
            /\ Goto(t, "Sleep", d, "Sleep66")
            /\ wake' = [wake EXCEPT ![t] = clock + d]
            /\ UNCHANGED tmp
    /\ UNCHANGED <<shared, clock>>

\* Sleep(d), line 62: the unlocked read of state.frozen; line 66: time.Sleep(d)
Sleep(t, d) ==
    /\ pc[t] = "idle"
    /\ IF frozen
       THEN InRange(d) /\ Goto(t, "Sleep", d, "Sleep64") /\ UNCHANGED <<tmp, wake>>
       ELSE IF d <= 0
            THEN Return(t, "Sleep", d, 0, FALSE, "ok")
            ELSE /\ clock + d <= MaxClock
                 /\ Goto(t, "Sleep", d, "Sleep66")
                 /\ wake' = [wake EXCEPT ![t] = clock + d]
                 /\ UNCHANGED tmp
    /\ UNCHANGED <<shared, clock>>

\* Sleep(d), line 64: the read of state.frozenTime
Sleep64(t) ==
    /\ pc[t] = "Sleep64"
    /\ tmp' = [tmp EXCEPT ![t] = frozenTime]
    /\ Goto(t, op[t], arg[t], "Sleep64w")
    /\ UNCHANGED <<shared, clock, wake>>

\* the sum computed and dropped: state.frozenTime.Add(d) with no assignment
Sleep64w_Dropped(t) ==
    /\ pc[t] = "Sleep64w"
    /\ frozenTime' = frozenTime
    /\ Return(t, op[t], arg[t], 0, FALSE, "ok")
    /\ UNCHANGED <<frozen, lock, clock>>

\* Sleep(d), line 64: the write of state.frozenTime, no lock taken
Sleep64w(t) ==
    /\ pc[t] = "Sleep64w"
    /\ frozenTime' = Add(tmp[t], arg[t])
    /\ Return(t, op[t], arg[t], 0, FALSE, "ok")
    /\ UNCHANGED <<frozen, lock, clock>>

\* the real sleep held up for as long as the state is frozen
Sleep66_WaitsLive(t) ==
    /\ pc[t] = "Sleep66"
    /\ clock >= wake[t] /\ ~frozen
    /\ Return(t, op[t], arg[t], 0, FALSE, "ok")
    /\ UNCHANGED <<shared, clock>>

\* the cached instant advanced after the real sleep as well
Sleep66_Advances(t) ==
    /\ pc[t] = "Sleep66"
    /\ clock >= wake[t]
    /\ frozenTime' = Add(frozenTime, arg[t])
    /\ Return(t, op[t], arg[t], 0, FALSE, "ok")
    /\ UNCHANGED <<frozen, lock, clock>>

\* Sleep(d), line 66: time.Sleep(d) returns once d has passed
Sleep66(t) ==
    /\ pc[t] = "Sleep66"
    /\ clock >= wake[t]
    /\ Return(t, op[t], arg[t], 0, FALSE, "ok")
    /\ UNCHANGED <<shared, clock>>

\* ------------------------------------------------------------- FreezeNow
FreezeNow(t) ==
    /\ pc[t] = "idle"
    /\ Goto(t, "FreezeNow", 0, "FreezeNow88")
    /\ UNCHANGED <<shared, clock, tmp, wake>>

\* line 88: state.Lock()
FreezeNow88(t) ==
    /\ pc[t] = "FreezeNow88"
    /\ lock = 0
    /\ lock' = t
    /\ Goto(t, op[t], arg[t], "FreezeNow90")
    /\ UNCHANGED <<frozen, frozenTime, clock, tmp, wake>>

\* line 90: state.frozen = true
FreezeNow90(t) ==
    /\ pc[t] = "FreezeNow90"
    /\ frozen' = TRUE
    /\ Goto(t, op[t], arg[t], "FreezeNow91")
    /\ UNCHANGED <<frozenTime, lock, clock, tmp, wake>>

\* the real time taken only when no instant is cached yet
FreezeNow91_KeepCached(t) ==
    /\ pc[t] = "FreezeNow91"
    /\ frozenTime' = IF frozenTime = ZeroTime THEN clock ELSE frozenTime
    /\ Goto(t, op[t], arg[t], "FreezeNow92")
    /\ UNCHANGED <<frozen, lock, clock, tmp, wake>>

\* line 91: state.frozenTime = time.Now()
FreezeNow91(t) ==
    /\ pc[t] = "FreezeNow91"
    /\ frozenTime' = clock
    /\ Goto(t, op[t], arg[t], "FreezeNow92")
    /\ UNCHANGED <<frozen, lock, clock, tmp, wake>>

\* line 92: return state.frozenTime, then the deferred state.Unlock()
FreezeNow92(t) ==
    /\ pc[t] = "FreezeNow92"
    /\ lock' = 0
    /\ Return(t, op[t], arg[t], frozenTime, FALSE, "ok")
    /\ UNCHANGED <<frozen, frozenTime, clock>>

\* ------------------------------------------------------------- Unfreeze
Unfreeze(t) ==
    /\ pc[t] = "idle"
    /\ Goto(t, "Unfreeze", 0, "Unfreeze98")
    /\ UNCHANGED <<shared, clock, tmp, wake>>

\* line 98: state.Lock()
Unfreeze98(t) ==
    /\ pc[t] = "Unfreeze98"
    /\ lock = 0
    /\ lock' = t
    /\ Goto(t, op[t], arg[t], "Unfreeze100")
    /\ UNCHANGED <<frozen, frozenTime, clock, tmp, wake>>

\* the flag left as it is
Unfreeze100_NoClear(t) ==
    /\ pc[t] = "Unfreeze100"
    /\ frozen' = frozen
    /\ Goto(t, op[t], arg[t], "Unfreeze101")
    /\ UNCHANGED <<frozenTime, lock, clock, tmp, wake>>

\* line 100: state.frozen = false
Unfreeze100(t) ==
    /\ pc[t] = "Unfreeze100"
    /\ frozen' = FALSE
    /\ Goto(t, op[t], arg[t], "Unfreeze101")
    /\ UNCHANGED <<frozenTime, lock, clock, tmp, wake>>

\* line 101: the deferred state.Unlock()
Unfreeze101(t) ==
    /\ pc[t] = "Unfreeze101"
    /\ lock' = 0
    /\ Return(t, op[t], arg[t], 0, FALSE, "ok")
    /\ UNCHANGED <<frozen, frozenTime, clock>>

\* ------------------------------------------------------------- IsFrozen
\* line 105: the unlocked read of state.frozen
IsFrozen(t) ==
    /\ pc[t] = "idle"
    /\ Return(t, "IsFrozen", 0, 0, frozen, "ok")
    /\ UNCHANGED <<shared, clock>>

\* ------------------------------------------------------------- Travel
\* the lock taken before the check, and no unlock on the panic
Travel_LockFirst(t, d) ==
    /\ pc[t] = "idle"
    /\ IF ~frozen
       THEN lock = 0 /\ lock' = t /\ Return(t, "Travel", d, 0, FALSE, "panic")
       ELSE InRange(d) /\ Goto(t, "Travel", d, "Travel115") /\ UNCHANGED <<tmp, wake, lock>>
    /\ UNCHANGED <<frozen, frozenTime, clock>>

\* the check left out: Travel() advances the cached instant in either mode
Travel_NoCheck(t, d) ==
    /\ pc[t] = "idle"
    /\ InRange(d)
    /\ Goto(t, "Travel", d, "Travel115") /\ UNCHANGED <<tmp, wake>>
    /\ UNCHANGED <<shared, clock>>

\* Travel(d), line 112: the unlocked read of state.frozen; line 113: panic
Travel(t, d) ==
    /\ pc[t] = "idle"
    /\ IF ~frozen
       THEN Return(t, "Travel", d, 0, FALSE, "panic")
       ELSE InRange(d) /\ Goto(t, "Travel", d, "Travel115") /\ UNCHANGED <<tmp, wake>>
    /\ UNCHANGED <<shared, clock>>

\* line 115: state.Lock()
Travel115(t) ==
    /\ pc[t] = "Travel115"
    /\ lock = 0
    /\ lock' = t
    /\ Goto(t, op[t], arg[t], "Travel117")
    /\ UNCHANGED <<frozen, frozenTime, clock, tmp, wake>>

\* line 117: the read of state.frozenTime
Travel117(t) ==
    /\ pc[t] = "Travel117"
    /\ tmp' = [tmp EXCEPT ![t] = frozenTime]
    /\ Goto(t, op[t], arg[t], "Travel117w")
    /\ UNCHANGED <<shared, clock, wake>>

\* the advance taken from the real clock: time.Now().Add(d)
Travel117w_FromClock(t) ==
    /\ pc[t] = "Travel117w"
    /\ frozenTime' = Add(clock, arg[t])
    /\ Goto(t, op[t], arg[t], "Travel118")
    /\ UNCHANGED <<frozen, lock, clock, tmp, wake>>

\* line 117: the write of state.frozenTime
Travel117w(t) ==
    /\ pc[t] = "Travel117w"
    /\ frozenTime' = Add(tmp[t], arg[t])
    /\ Goto(t, op[t], arg[t], "Travel118")
    /\ UNCHANGED <<frozen, lock, clock, tmp, wake>>

\* the return with no deferred state.Unlock()
Travel118_KeepsLock(t) ==
    /\ pc[t] = "Travel118"
    /\ Return(t, op[t], arg[t], frozenTime, FALSE, "ok")
    /\ UNCHANGED <<shared, clock>>

\* line 118: return state.frozenTime, then the deferred state.Unlock()
Travel118(t) ==
    /\ pc[t] = "Travel118"
    /\ lock' = 0
    /\ Return(t, op[t], arg[t], frozenTime, FALSE, "ok")
    /\ UNCHANGED <<frozen, frozenTime, clock>>

\* ------------------------------------------------------------- specifications
Step(t) ==
    \/ Now(t)
    \/ \E u \in KnownTimes : Since(t, u)
    \/ \E u \in KnownTimes : Until(t, u)
    \/ Now53(t)
    \/ \E d \in DurArgs : Sleep(t, d)
    \/ Sleep64(t)
    \/ Sleep64w(t)
    \/ Sleep66(t)
    \/ FreezeNow(t)
    \/ FreezeNow88(t)
    \/ FreezeNow90(t)
    \/ FreezeNow91(t)
    \/ FreezeNow92(t)
    \/ Unfreeze(t)
    \/ Unfreeze98(t)
    \/ Unfreeze100(t)
    \/ Unfreeze101(t)
    \/ IsFrozen(t)
    \/ \E d \in DurArgs : Travel(t, d)
    \/ Travel115(t)
    \/ Travel117(t)
    \/ Travel117w(t)
    \/ Travel118(t)

\* any number of concurrent callers
Init == Init0 /\ rec = FALSE /\ un = NoVariant

Next == Tick \/ \E t \in Threads : Step(t)

Spec == Init /\ [][Next]_vars

\* a single caller, which keeps the record of its calls and runs the
\* unsynchronized variant alongside
InitSeq == Init0 /\ rec = TRUE /\ un = UnInit

NextSeq == Tick \/ Step(1)

SpecSeq == InitSeq /\ [][NextSeq]_vars

\* state.Lock() of thread t
Acquire(t) == FreezeNow88(t) \/ Unfreeze98(t) \/ Travel115(t)

\* any other step of a call of thread t that is in progress
Continue(t) ==
    \/ Now53(t)
    \/ Sleep64(t) \/ Sleep64w(t) \/ Sleep66(t)
    \/ FreezeNow90(t) \/ FreezeNow91(t) \/ FreezeNow92(t)
    \/ Unfreeze100(t) \/ Unfreeze101(t)
    \/ Travel117(t) \/ Travel117w(t) \/ Travel118(t)

\* Real time passes; a goroutine that can run does run; a goroutine waiting in
\* state.Lock() gets the mutex if it is released again and again (sync.Mutex hands
\* the mutex to a waiter that has waited long).  Nothing obliges a caller to call.
Fairness ==
    /\ WF_vars(Tick)
    /\ \A t \in Threads : WF_vars(Continue(t)) /\ SF_vars(Acquire(t))

\* concurrent callers under fair scheduling
SpecFair == Init /\ [][Next]_vars /\ Fairness

\* Concurrent callers that only advance a freeze: the state is the one a
\* FreezeNow() called and returned at real time 0 leaves, the record is that of all
\* the callers together, and every thread makes at most one call, a Sleep() or a
\* Travel(), before any of these calls has returned.
InitRace ==
    /\ frozen = TRUE
    /\ frozenTime = 0
    /\ lock = 0
    /\ clock = 0
    /\ pc = [t \in Threads |-> "idle"]
    /\ op = [t \in Threads |-> "none"]
    /\ arg = [t \in Threads |-> 0]
    /\ tmp = [t \in Threads |-> 0]
    /\ wake = [t \in Threads |-> 0]
    /\ rec = TRUE
    /\ last = [NoCall EXCEPT !.op = "FreezeNow"]
    /\ prev = Older(NoCall)
    /\ expect = TRUE
    /\ base = 0
    /\ adv = 0
    /\ stable = NoStable
    /\ began = 0
    /\ un = NoVariant

\* the calls are made while none of them has returned, one by a thread
Concurrent == last.op = "FreezeNow"

Advance(t) ==
    \/ \E d \in DurArgs : Concurrent /\ Sleep(t, d)
    \/ Sleep64(t)
    \/ Sleep64w(t)
    \/ \E d \in DurArgs : Concurrent /\ Travel(t, d)
    \/ Travel115(t)
    \/ Travel117(t)
    \/ Travel117w(t)
    \/ Travel118(t)

NextRace == \E t \in Threads : Advance(t)

SpecRace == InitRace /\ [][NextRace]_vars

\* ------------------------------------------------------------- claims
\* what Now() is to return by the caller's record while a freeze lasts
FrozenExpected == base + adv

\* C1 as stated: after FreezeNow() returned t0 and Sleep(d_i)/Travel(d_i) calls
\* followed with no FreezeNow() or Unfreeze(), Now() returns t0 + sum(d_i) and
\* Since(t0) returns sum(d_i)
C1_Original ==
    /\ expect /\ last.op = "Now" => last.ret = base + adv
    /\ expect /\ last.op = "Since" /\ last.arg = base => last.ret = adv

\* C1 as amended: Now() returns t0 + sum(d_i); Since(t0) returns sum(d_i) when the
\* sum is a Duration, and maxDuration or minDuration when it lies beyond
C1_FrozenAdvance ==
    /\ expect /\ last.op = "Now" => last.ret = base + adv
    /\ expect /\ last.op = "Since" /\ last.arg = base =>
          last.ret = (IF adv > DurMax THEN DurMax ELSE IF adv < DurMin THEN DurMin ELSE adv)

\* Since(t0) after advancements that sum to more than maxDuration, real time
\* having passed since the freeze
C1_Witness ==
    /\ expect /\ last.op = "Since" /\ last.arg = base
    /\ adv > DurMax /\ prev.op = "Travel" /\ clock > base

\* C2: while frozen, Now() calls with no Sleep/Travel/FreezeNow/Unfreeze between
\* them return equal instants, whatever the real clock did and whatever reads
\* were made between them
C2_FrozenNowStable ==
    expect /\ last.op = "Now" /\ stable.st # "none" => last.ret = stable.val

\* a second Now() after the real clock advanced, a Since() between the two
C2_Witness ==
    expect /\ last.op = "Now" /\ stable.st = "two" /\ prev.op = "Since"

\* C3: Travel(d) called while frozen is false panics, leaves frozen and frozenTime
\* as they were and the lock free; a FreezeNow() called after the panic returns,
\* and a Travel(d) called after a FreezeNow() returns a value
C3_TravelUnfrozenPanics ==
    /\ [](prev.op = "Travel" /\ prev.out = "panic" /\ last.op = "FreezeNow" =>
             last.out = "ok")
    /\ [](prev.op = "FreezeNow" /\ last.op = "Travel" => last.out = "ok")
    /\ [][\A d \in DurArgs : Travel(1, d) /\ ~frozen =>
             /\ last'.op = "Travel" /\ last'.out = "panic"
             /\ pc'[1] = "idle" /\ lock' = 0
             /\ UNCHANGED <<frozen, frozenTime>>]_vars

\* a FreezeNow() that returned right after a Travel() that panicked, with the
\* cached instant of an earlier freeze still in place
C3_Witness ==
    /\ prev.op = "Travel" /\ prev.out = "panic"
    /\ last.op = "FreezeNow" /\ last.out = "ok"
    /\ pc[1] = "idle" /\ lock = 0 /\ frozen

\* C4: Travel(d) called while frozen returns what the Now() just before it returned
\* plus d, the Now() right after it returns that same instant, and frozen stays true
C4_TravelAdvances ==
    /\ prev.op = "Now" /\ last.op = "Travel" /\ last.out = "ok" =>
          last.ret = prev.ret + last.arg
    /\ prev.op = "Travel" /\ prev.out = "ok" /\ last.op = "Now" => last.ret = prev.ret
    /\ last.op = "Travel" /\ last.out = "ok" /\ pc[1] = "idle" => frozen

\* a Now(), then a Travel(d) with d # 0 that returned, while real time has passed
C4_Witness ==
    /\ prev.op = "Now" /\ last.op = "Travel" /\ last.out = "ok"
    /\ last.arg # 0 /\ clock > base /\ pc[1] = "idle"

\* C5: frozen is false initially and, between calls, true exactly when a FreezeNow()
\* was called with no Unfreeze() after it; IsFrozen() returns just that
C5_FrozenFlag ==
    /\ pc[1] = "idle" => frozen = expect
    /\ last.op = "IsFrozen" => last.flag = expect

\* IsFrozen() returning true after a freeze in which the time was advanced
C5_Witness ==
    last.op = "IsFrozen" /\ last.flag /\ expect /\ adv # 0

\* C6: FreezeNow() returns the real time of some moment of the call, whatever
\* frozenTime was, and leaves it in frozenTime; the Now() after it returns the same
C6_FreezeNowResets ==
    /\ last.op = "FreezeNow" =>
          /\ last.clk0 <= last.ret /\ last.ret <= last.clk
          /\ pc[1] = "idle" => frozen /\ frozenTime = last.ret
    /\ prev.op = "FreezeNow" /\ last.op = "Now" => last.ret = prev.ret

\* FreezeNow() called right after a Travel() returned, so while frozen, returning
\* another instant than the advanced one
C6_Witness ==
    /\ prev.op = "Travel" /\ prev.out = "ok"
    /\ last.op = "FreezeNow" /\ last.ret # prev.ret

\* C7: after Unfreeze() frozen is false, Now() returns the real time of its call,
\* and of two Now() calls in a row the later does not return less
C7_UnfreezeResumes ==
    /\ last.op = "Unfreeze" /\ pc[1] = "idle" => ~frozen
    /\ ~expect /\ last.op = "Now" => last.ret = last.clk
    /\ ~expect /\ prev.op = "Now" /\ last.op = "Now" => prev.ret <= last.ret

\* two Now() calls after an Unfreeze(), the real clock having advanced between
\* them, while frozenTime keeps an instant that is ahead of the real clock
C7_Witness ==
    /\ ~expect /\ prev.op = "Now" /\ last.op = "Now" /\ prev.ret < last.ret
    /\ frozenTime # ZeroTime /\ frozenTime > last.ret

\* C8: a step that changes frozen or frozenTime is taken by the thread that holds
\* the lock
C8_WritesUnderLock ==
    [][frozen' # frozen \/ frozenTime' # frozenTime =>
          lock # 0 /\ pc'[lock] # pc[lock]]_vars

\* C9 as stated: while frozen, Since(t) + Until(t) = 0 for every t
C9_Original ==
    expect /\ prev.op = "Since" /\ last.op = "Until" /\ prev.arg = last.arg =>
        prev.ret + last.ret = 0

\* what Now() is to return by the caller's record: the advanced instant while a
\* freeze lasts, the real time of the call otherwise
NowExpected == IF expect THEN FrozenExpected ELSE last.clk

\* C9 as amended: Since(t) is Now() - t and Until(t) is t - Now(), each saturated
\* to the Duration range; while frozen they sum to 0 when t is within maxDuration
\* of Now(), and both are 0 for t = Now()
C9_SinceUntil ==
    /\ last.op = "Since" => last.ret = Saturate(NowExpected - last.arg)
    /\ last.op = "Until" => last.ret = Saturate(last.arg - NowExpected)
    /\ /\ expect /\ prev.op = "Since" /\ last.op = "Until" /\ prev.arg = last.arg
       /\ FrozenExpected - last.arg <= DurMax /\ last.arg - FrozenExpected <= DurMax
       => prev.ret + last.ret = 0
    /\ expect /\ prev.op = "Now" /\ last.op \in {"Since", "Until"}
         /\ last.arg = prev.ret => last.ret = 0

\* while frozen, Since(t) then Until(t) for an instant t other than Now() and
\* within maxDuration of it
C9_Witness ==
    /\ expect /\ prev.op = "Since" /\ last.op = "Until" /\ prev.arg = last.arg
    /\ last.arg # FrozenExpected /\ last.ret # DurMin /\ prev.ret # DurMax
    /\ prev.ret + last.ret = 0

\* C10: only Travel panics, and only when frozen is false
C10_OnlyTravelPanics ==
    /\ last.out = "panic" => last.op = "Travel"
    /\ prev.out = "panic" => prev.op = "Travel"
    /\ last.op = "Travel" /\ pc[1] = "idle" => (last.out = "panic" <=> ~frozen)

\* a Travel() by a negative duration that returned, after a Sleep(), the cached
\* instant being behind the one the freeze took
C10_Witness ==
    /\ last.op = "Travel" /\ last.out = "ok" /\ last.arg < 0
    /\ pc[1] = "idle" /\ frozen /\ frozenTime < base

\* C11: called while frozen, Sleep(d) and Travel(d) leave the same state: frozen
\* still true, the lock free and frozenTime advanced by d, so that frozenTime is the
\* instant the freeze took plus every d passed since, whichever of the two took it;
\* Travel() also returns that instant
C11_SleepTravelSame ==
    expect /\ pc[1] = "idle" /\ last.op \in {"Sleep", "Travel"} /\ last.out = "ok" =>
        /\ frozen /\ lock = 0
        /\ frozenTime = base + adv
        /\ last.op = "Travel" => last.ret = frozenTime

\* a Sleep(d) with d # 0 that returned right after a Travel() in the same freeze
C11_Witness ==
    /\ expect /\ pc[1] = "idle" /\ prev.op = "Travel" /\ prev.out = "ok"
    /\ last.op = "Sleep" /\ last.arg # 0 /\ adv # last.arg
    /\ frozenTime = prev.ret + last.arg

\* C12: under any interleaving, the step of Travel(d) that changes frozenTime is
\* taken in a state where frozen is true
C12_TravelWritesFrozen ==
    [][\A t \in Threads :
          pc[t] = "Travel117w" /\ pc'[t] = "Travel118" /\ frozenTime' # frozenTime
              => frozen]_vars

\* frozenTime holds what the most recent FreezeNow() took from the real clock, plus
\* the advancements made since: frozen was set and the assignment of line 91 that
\* follows it has been made
Captured == frozen /\ \A u \in Threads : pc[u] # "FreezeNow91"

\* C13: under any interleaving, the step at which Now() reads the instant it
\* returns in frozen mode is taken when frozenTime holds the capture of the most
\* recent FreezeNow(), never the instant retained from before it
C13_NowReturnsCapture ==
    [][\A t \in Threads :
          pc[t] = "Now53" /\ pc'[t] = "idle" /\ op[t] = "Now" /\ frozen
              => Captured]_vars

\* C14: every step of Now(), Since(t), Until(t) and IsFrozen(), and every step of a
\* Sleep(d) that found frozen false, leaves frozen, frozenTime and the lock as they
\* are; the lock is only ever held by a FreezeNow(), an Unfreeze() or a Travel()
C14_ReadsLeaveState ==
    /\ [](\A t \in Threads : lock = t => op[t] \in {"FreezeNow", "Unfreeze", "Travel"})
    /\ [][\A t \in Threads :
             \/ Now(t)
             \/ \E u \in KnownTimes : Since(t, u) \/ Until(t, u)
             \/ Now53(t)
             \/ IsFrozen(t)
             \/ ~frozen /\ \E d \in DurArgs : Sleep(t, d)
             \/ Sleep66(t)
             => UNCHANGED <<frozen, frozenTime, lock>>]_vars

\* a Now() about to return the cached instant, or a Sleep(d) in its real sleep,
\* while the state is frozen and another thread holds the lock
C14_Witness ==
    \E t, u \in Threads :
        /\ pc[t] \in {"Now53", "Sleep66"} /\ frozen /\ frozenTime # ZeroTime
        /\ lock = u /\ u # t

\* C15: a thread in the real sleep of Sleep(d) holds no lock, and under fair
\* scheduling its call returns, whatever the other threads do to the state while
\* it sleeps
C15_SleepHoldsNoLock ==
    /\ [](\A t \in Threads : pc[t] = "Sleep66" => lock # t)
    /\ \A t \in Threads : (pc[t] = "Sleep66") ~> (pc[t] = "idle")

\* a thread still in its real sleep while another thread, having taken the lock and
\* frozen the state, is about to return from FreezeNow()
C15_Witness ==
    \E t, u \in Threads :
        /\ pc[t] = "Sleep66" /\ clock < wake[t]
        /\ pc[u] = "FreezeNow92" /\ lock = u /\ frozen

\* C16: the lock is held only by a thread between the state.Lock() and the return
\* of a FreezeNow(), an Unfreeze() or a Travel(), so it is free whenever no call is
\* in progress, a Travel() that panicked included; and under fair scheduling every
\* call in progress comes to its end
C16_LockReleased ==
    /\ [](lock # 0 =>
            pc[lock] \in {"FreezeNow90", "FreezeNow91", "FreezeNow92", "Unfreeze100",
                          "Unfreeze101", "Travel117", "Travel117w", "Travel118"})
    /\ []((\A t \in Threads : pc[t] = "idle") => lock = 0)
    /\ \A t \in Threads : (pc[t] # "idle") ~> (pc[t] = "idle")

\* a Travel() waiting in state.Lock() while an Unfreeze() that cleared frozen
\* holds the lock
C16_Witness ==
    \E t, u \in Threads :
        /\ pc[t] = "Travel115" /\ pc[u] = "Unfreeze101"
        /\ lock = u /\ ~frozen

\* C17: starting frozen, with concurrent callers that only call Sleep() and
\* Travel(), whenever all calls have returned frozenTime is the instant of the
\* freeze plus the sum of the durations passed, in every interleaving
C17_NoLostAdvance ==
    (\A t \in Threads : pc[t] = "idle") => frozenTime = base + adv

\* C18: for a single caller, the package and its unsynchronized variant, run call
\* for call on the same real clock, hold the same frozen and frozenTime in every
\* state, and every call returns the same value, or panics, in both
C18_VariantsAgree ==
    /\ un.frozen = frozen /\ un.frozenTime = frozenTime
    /\ pc[1] = "idle" =>
          /\ un.pc = "idle"
          /\ un.ret = last.ret /\ un.flag = last.flag /\ un.out = last.out

\* a Travel() that panicked in both after an Unfreeze(), the instant of the freeze
\* before it, which was advanced, still in frozenTime
C18_Witness ==
    /\ pc[1] = "idle" /\ last.op = "Travel" /\ last.out = "panic" /\ un.out = "panic"
    /\ ~un.frozen /\ un.frozenTime # ZeroTime /\ un.frozenTime > clock

====
